---- MODULE Spec2Model ----
(***************************************************************************)
(* A model of the global-state machine of the palette editor               *)
(* (src/unnamed/part_000): the XState machine `global-state`, its context  *)
(* {palettes, past, future}, its two states idle / debouncing, the 200 ms  *)
(* delayed transition, and the assign action of every event.               *)
(*                                                                         *)
(* Every event handler is a pure operator from a context (and the event's  *)
(* payload) to the next context, named after the event.  The actions       *)
(* Send... apply one handler through the machine's transition rule.        *)
(*                                                                         *)
(* JavaScript values: a number is Num(n); NaN and undefined are values of  *)
(* their own, so that `undefined - 10` and a read past the end of an array *)
(* are what they are in the program.  Array indices in events are the      *)
(* program's (0-based); sequences here are 1-based.                        *)
(*                                                                         *)
(* Not modelled: the persistence of the state to localStorage (lines       *)
(* 537-563).                                                               *)
(***************************************************************************)
EXTENDS Integers, Sequences, FiniteSets, TLC

VARIABLES context, state, timer, nextId, undos, burst

vars == <<context, state, timer, nextId, undos, burst>>

(***************************************************************************)
(* Bounds of the model.                                                    *)
(***************************************************************************)
\* uniqueId() is called at most MaxIds times.
MaxIds == 4
\* No scale grows beyond MaxColors colors, no naming scheme beyond as many names.
MaxColors == 2
\* The 200 ms window of `after` is TicksPerWindow ticks of the clock.
TicksPerWindow == 1
\* UNDO is sent at most MaxUndos times.
MaxUndos == 1
\* Where the commands are counted, one is sent only while past holds fewer
\* than MaxPast entries.
MaxPast == 4

(***************************************************************************)
(* JavaScript values.                                                      *)
(***************************************************************************)
Num(n) == [t |-> "number", v |-> n]
NaN == [t |-> "NaN", v |-> 0]
Undefined == [t |-> "undefined", v |-> 0]
IsNum(x) == x.t = "number"

\* a + b on numbers; NaN when either side is NaN or undefined.
Add(a, b) == IF IsNum(a) /\ IsNum(b) THEN Num(a.v + b.v) ELSE NaN
\* a - b
Sub(a, b) == IF IsNum(a) /\ IsNum(b) THEN Num(a.v - b.v) ELSE NaN
\* a * b
Mul(a, b) == IF IsNum(a) /\ IsNum(b) THEN Num(a.v * b.v) ELSE NaN
\* Math.max(a, b)
MathMax(a, b) ==
  IF IsNum(a) /\ IsNum(b) THEN (IF a.v >= b.v THEN a ELSE b) ELSE NaN

\* null, and the empty string an event carries for "no curve".
NULL == "null"
EmptyString == ""
\* x ?? d on an optional number: <<>> is null, <<n>> is n.
Nullish(x, d) == IF x = <<>> THEN d ELSE x[1]

\* arr[index] of a JavaScript array (0-based): undefined out of range.
At(arr, index, undef) ==
  IF index >= 0 /\ index < Len(arr) THEN arr[index + 1] ELSE undef

\* arr.slice(from) / arr.slice(0, to)
SliceFrom(arr, from) == SubSeq(arr, from + 1, Len(arr))
SliceTo(arr, to) == SubSeq(arr, 1, to)

(***************************************************************************)
(* Objects used as maps (Record<string, T>).                               *)
(***************************************************************************)
EmptyMap == [k \in {} |-> k]
MapPut(m, k, v) == [x \in (DOMAIN m) \cup {k} |-> IF x = k THEN v ELSE m[x]]
MapDel(m, k) == [x \in (DOMAIN m) \ {k} |-> m[x]]
\* Object.assign(target, source)
ObjectAssign(m, src) ==
  [x \in (DOMAIN m) \cup (DOMAIN src) |-> IF x \in DOMAIN src THEN src[x] ELSE m[x]]

\* uniqueId(): the n-th identifier handed out.
Id(n) == ToString(n)

Channels == {"hue", "saturation", "lightness"}

Color(h, s, l) == [hue |-> Num(h), saturation |-> Num(s), lightness |-> Num(l)]
\* {...undefined}: an object without any channel.
EmptyObject == [hue |-> Undefined, saturation |-> Undefined, lightness |-> Undefined]

(***************************************************************************)
(* The machine's context.                                                  *)
(***************************************************************************)
InitialContext == [palettes |-> EmptyMap, past |-> <<>>, future |-> <<>>]

\* const size = 25
size == 25

\* A faulty UNDO that restores the oldest entry of past instead of the newest.
UNDO_restores_oldest(ctx) ==
  IF Len(ctx.past) > 0
  THEN [palettes |-> ctx.past[1],
        past |-> SliceFrom(ctx.past, 1),
        future |-> Append(ctx.future, ctx.palettes)]
  ELSE ctx

\* A faulty UNDO that leaves the restored document in past.
UNDO_keeps_past(ctx) ==
  IF Len(ctx.past) > 0
  THEN [palettes |-> ctx.past[Len(ctx.past)],
        past |-> ctx.past,
        future |-> Append(ctx.future, ctx.palettes)]
  ELSE ctx

\* UNDO
UNDO(ctx) ==
  IF Len(ctx.past) > 0
  THEN [palettes |-> ctx.past[Len(ctx.past)],
        past |-> SliceTo(ctx.past, Len(ctx.past) - 1),
        future |-> Append(ctx.future, ctx.palettes)]
  ELSE ctx

\* REDO
REDO(ctx) ==
  IF Len(ctx.future) > 0
  THEN [palettes |-> ctx.future[1],
        past |-> Append(ctx.past, ctx.palettes),
        future |-> SliceFrom(ctx.future, 1)]
  ELSE ctx

\* arr.slice(-n): the last n elements.
SliceLast(arr, n) == IF Len(arr) > n THEN SubSeq(arr, Len(arr) - n + 1, Len(arr)) ELSE arr

\* A faulty exit action that takes no checkpoint of a document that is
\* already the last entry of past.
idle_exit_skips_unchanged(ctx) ==
  IF Len(ctx.past) > 0 /\ ctx.past[Len(ctx.past)] = ctx.palettes
  THEN [palettes |-> ctx.palettes, past |-> ctx.past, future |-> <<>>]
  ELSE [palettes |-> ctx.palettes,
        past |-> SliceLast(Append(ctx.past, ctx.palettes), size),
        future |-> <<>>]

\* A faulty exit action that keeps the first `size` entries of past.
idle_exit_keeps_oldest(ctx) ==
  [palettes |-> ctx.palettes,
   past |-> IF Len(ctx.past) >= size THEN SliceTo(ctx.past, size)
            ELSE Append(ctx.past, ctx.palettes),
   future |-> <<>>]

\* states.idle.exit
idle_exit(ctx) ==
  [palettes |-> ctx.palettes,
   past |-> SliceLast(Append(ctx.past, ctx.palettes), size),
   future |-> <<>>]

(***************************************************************************)
(* Data the handlers read: the example scales a new palette is seeded      *)
(* with and the named CSS colors, both already converted by hexToColor.    *)
(***************************************************************************)
ExampleScales ==
  << [name |-> <<"gray">>, colors |-> <<Color(0, 0, 15), Color(0, 0, 5)>>] >>
cssColorNames == << [name |-> <<"red">>, color |-> Color(0, 100, 5)] >>
\* hexToColor(name) of a named CSS color
hexToColor(name) ==
  (CHOOSE c \in {cssColorNames[i] : i \in 1..Len(cssColorNames)} : c.name = name).color

(***************************************************************************)
(* getColor(curves, scale, index): per channel, the curve's value at index *)
(* plus the stored value when the scale has a curve on the channel, the    *)
(* stored value otherwise.                                                 *)
(***************************************************************************)
getColor(curves, scale, index) ==
  [ch \in Channels |->
     LET stored == At(scale.colors, index, EmptyObject)[ch] IN
     IF ch \in DOMAIN scale.curves
     THEN Add(IF scale.curves[ch] \in DOMAIN curves
              THEN At(curves[scale.curves[ch]].values, index, Undefined)
              ELSE Undefined,
              stored)
     ELSE stored]

\* {...color, [channel]: value}
WithChannel(color, channel, value) == [color EXCEPT ![channel] = value]

(***************************************************************************)
(* The assign action of every event: ctx is the context the action is      *)
(* given, event the event's payload; ids and random indices the action     *)
(* draws are parameters.                                                   *)
(***************************************************************************)
\* CREATE_PALETTE; firstId numbers the first uniqueId() it calls.
CREATE_PALETTE(ctx, firstId) ==
  LET paletteId == Id(firstId)
      scales == [i \in 1..Len(ExampleScales) |->
                   [id |-> Id(firstId + i),
                    name |-> ExampleScales[i].name,
                    colors |-> ExampleScales[i].colors,
                    curves |-> EmptyMap,
                    namingSchemeId |-> NULL]]
  IN [ctx EXCEPT !.palettes = MapPut(@, paletteId,
        [id |-> paletteId,
         name |-> <<"Untitled">>,
         backgroundColor |-> "#ffffff",
         scales |-> [k \in {scales[i].id : i \in 1..Len(scales)} |->
                       CHOOSE sc \in {scales[i] : i \in 1..Len(scales)} : sc.id = k],
         curves |-> EmptyMap,
         namingSchemes |-> EmptyMap])]

\* DUPLICATE_PALETTE
DUPLICATE_PALETTE(ctx, event, firstId) ==
  LET existingPalette == ctx.palettes[event.paletteId]
      paletteId == Id(firstId)
  IN [ctx EXCEPT !.palettes = MapPut(@, paletteId,
        [existingPalette EXCEPT !.id = paletteId,
                                !.name = Append(existingPalette.name, "(copy)")])]

\* DELETE_PALETTE
DELETE_PALETTE(ctx, event) ==
  [ctx EXCEPT !.palettes = MapDel(@, event.paletteId)]

\* CHANGE_PALETTE_NAME
CHANGE_PALETTE_NAME(ctx, event) ==
  [ctx EXCEPT !.palettes[event.paletteId].name = event.name]

\* CHANGE_PALETTE_BACKGROUND_COLOR
CHANGE_PALETTE_BACKGROUND_COLOR(ctx, event) ==
  [ctx EXCEPT !.palettes[event.paletteId].backgroundColor = event.backgroundColor]

\* IMPORT_SCALES
IMPORT_SCALES(ctx, event) ==
  IF event.replace
  THEN [ctx EXCEPT !.palettes[event.paletteId].scales = event.scales]
  ELSE [ctx EXCEPT !.palettes[event.paletteId].scales = ObjectAssign(@, event.scales)]

\* CREATE_SCALE; randomIndex is randomIntegerInRange(0, cssColorNames.length).
CREATE_SCALE(ctx, event, firstId, randomIndex) ==
  LET scaleId == Id(firstId)
      name == cssColorNames[randomIndex + 1].name
      color == hexToColor(name)
  IN [ctx EXCEPT !.palettes[event.paletteId].scales = MapPut(@, scaleId,
        [id |-> scaleId,
         name |-> name,
         colors |-> <<color>>,
         curves |-> EmptyMap,
         namingSchemeId |-> NULL])]

\* DELETE_SCALE
DELETE_SCALE(ctx, event) ==
  [ctx EXCEPT !.palettes[event.paletteId].scales = MapDel(@, event.scaleId)]

\* DUPLICATE_SCALE
DUPLICATE_SCALE(ctx, event, firstId) ==
  LET existingScale == ctx.palettes[event.paletteId].scales[event.scaleId]
      scaleId == Id(firstId)
  IN [ctx EXCEPT !.palettes[event.paletteId].scales = MapPut(@, scaleId,
        [existingScale EXCEPT !.id = scaleId,
                              !.name = Append(existingScale.name, "(copy)")])]

\* CHANGE_SCALE_NAME
CHANGE_SCALE_NAME(ctx, event) ==
  [ctx EXCEPT !.palettes[event.paletteId].scales[event.scaleId].name = event.name]

\* A faulty CREATE_COLOR that darkens the copy wherever it is inserted.
CREATE_COLOR_always_darkens(ctx, event, randomIndex) ==
  LET colors == ctx.palettes[event.paletteId].scales[event.scaleId].colors
      afterIndex == Nullish(event.afterIndex, Len(colors) - 1)
      spread == At(colors, afterIndex, EmptyObject)
      color == [spread EXCEPT !.lightness = MathMax(Num(0), Sub(spread.lightness, Num(10)))]
  IN [ctx EXCEPT !.palettes[event.paletteId].scales[event.scaleId].colors =
        SliceTo(colors, afterIndex + 1) \o <<color>> \o SliceFrom(colors, afterIndex + 1)]

\* CREATE_COLOR.  `{...colors[afterIndex]}` is an object even when
\* colors[afterIndex] is undefined, so `!color` is false for every input.
CREATE_COLOR(ctx, event, randomIndex) ==
  LET scale == ctx.palettes[event.paletteId].scales[event.scaleId]
      colors == scale.colors
      afterIndex == Nullish(event.afterIndex, Len(colors) - 1)
      spread == At(colors, afterIndex, EmptyObject)
      notColor == FALSE
      color == IF notColor
               THEN hexToColor(cssColorNames[randomIndex + 1].name)
               ELSE IF afterIndex = Len(colors) - 1
               THEN [spread EXCEPT !.lightness = MathMax(Num(0), Sub(spread.lightness, Num(10)))]
               ELSE spread
  IN [ctx EXCEPT !.palettes[event.paletteId].scales[event.scaleId].colors =
        SliceTo(colors, afterIndex + 1) \o <<color>> \o SliceFrom(colors, afterIndex + 1)]

\* POP_COLOR
POP_COLOR(ctx, event) ==
  LET scale == ctx.palettes[event.paletteId].scales[event.scaleId]
      colors == scale.colors
      namingSchemeId == scale.namingSchemeId
  IN IF Len(colors) > 1 \/ namingSchemeId /= NULL
     THEN ctx
     ELSE [ctx EXCEPT !.palettes[event.paletteId].scales[event.scaleId].colors =
             SliceTo(colors, Len(colors) - 1)]

\* colors.splice(index, 1) for an index in 0 .. colors.length
Splice1(colors, index) == SliceTo(colors, index) \o SliceFrom(colors, index + 1)

\* DELETE_COLOR
DELETE_COLOR(ctx, event) ==
  LET scale == ctx.palettes[event.paletteId].scales[event.scaleId]
      colors == scale.colors
      namingSchemeId == scale.namingSchemeId
  IN IF namingSchemeId /= NULL
     THEN ctx
     ELSE IF Len(colors) > 1
     THEN [ctx EXCEPT !.palettes[event.paletteId].scales[event.scaleId].colors =
             Splice1(colors, event.index)]
     ELSE ctx

\* CHANGE_COLOR_VALUE: Object.assign(colors[index], value)
CHANGE_COLOR_VALUE(ctx, event) ==
  [ctx EXCEPT !.palettes[event.paletteId].scales[event.scaleId].colors[event.index + 1] =
     ObjectAssign(@, event.value)]

\* A faulty CREATE_CURVE_FROM_SCALE whose curve takes the stored values of the
\* channel instead of the effective ones.
CREATE_CURVE_FROM_SCALE_stored_values(ctx, event, firstId) ==
  LET curveId == Id(firstId)
      scale == ctx.palettes[event.paletteId].scales[event.scaleId]
      ResetOffset(color, index) == WithChannel(color, event.curveType, Num(0))
  IN [ctx EXCEPT
        !.palettes[event.paletteId].curves = MapPut(@, curveId,
           [id |-> curveId,
            name |-> Append(scale.name, event.curveType),
            type |-> event.curveType,
            values |-> [i \in 1..Len(scale.colors) |-> scale.colors[i][event.curveType]]]),
        !.palettes[event.paletteId].scales[event.scaleId].curves =
           MapPut(@, event.curveType, curveId),
        !.palettes[event.paletteId].scales[event.scaleId].colors =
           [i \in 1..Len(scale.colors) |-> ResetOffset(scale.colors[i], i - 1)]]

\* CREATE_CURVE_FROM_SCALE
CREATE_CURVE_FROM_SCALE(ctx, event, firstId) ==
  LET curveId == Id(firstId)
      palette == ctx.palettes[event.paletteId]
      scale == palette.scales[event.scaleId]
      values == [i \in 1..Len(scale.colors) |->
                   getColor(palette.curves, scale, i - 1)[event.curveType]]
      ResetOffset(color, index) == WithChannel(color, event.curveType, Num(0))
  IN [ctx EXCEPT
        !.palettes[event.paletteId].curves = MapPut(@, curveId,
           [id |-> curveId,
            name |-> Append(scale.name, event.curveType),
            type |-> event.curveType,
            values |-> values]),
        !.palettes[event.paletteId].scales[event.scaleId].curves =
           MapPut(@, event.curveType, curveId),
        !.palettes[event.paletteId].scales[event.scaleId].colors =
           [i \in 1..Len(scale.colors) |-> ResetOffset(scale.colors[i], i - 1)]]

\* CREATE_NAMING_SCHEME_FROM_SCALE
CREATE_NAMING_SCHEME_FROM_SCALE(ctx, event, firstId) ==
  LET palette == ctx.palettes[event.paletteId]
      scale == palette.scales[event.scaleId]
      namingSchemeId == Id(firstId)
      name == Append(scale.name, "naming scheme")
      names == [i \in 1..Len(scale.colors) |-> ToString(i - 1)]
  IN [ctx EXCEPT
        !.palettes[event.paletteId].namingSchemes = MapPut(@, namingSchemeId,
           [id |-> namingSchemeId, name |-> name, names |-> names]),
        !.palettes[event.paletteId].scales[event.scaleId].namingSchemeId = namingSchemeId]

\* CHANGE_CURVE_NAME
CHANGE_CURVE_NAME(ctx, event) ==
  [ctx EXCEPT !.palettes[event.paletteId].curves[event.curveId].name = event.name]

\* A faulty removal that drops the references and leaves the stored values.
RemoveCurveReferences_keeps_values(curves, scale, curveId) ==
  [scale EXCEPT !.curves =
     [type \in {t \in DOMAIN scale.curves : scale.curves[t] /= curveId} |-> scale.curves[type]]]

\* DELETE_CURVE, for one scale: every channel of the scale that names the
\* curve gets the curve's value added to the stored value and loses the curve.
RemoveCurveReferences(curves, scale, curveId) ==
  LET hit == {type \in DOMAIN scale.curves : scale.curves[type] = curveId}
      Absolute(color, index) ==
        [ch \in Channels |->
           IF ch \in hit
           THEN Add(At(curves[curveId].values, index, Undefined), color[ch])
           ELSE color[ch]]
  IN IF hit = {}
     THEN scale
     ELSE [scale EXCEPT !.colors = [i \in 1..Len(scale.colors) |-> Absolute(scale.colors[i], i - 1)],
                        !.curves = [type \in (DOMAIN scale.curves) \ hit |-> scale.curves[type]]]

\* A faulty DELETE_CURVE that deletes the curve and leaves the scales alone.
DELETE_CURVE_keeps_references(ctx, event) ==
  [ctx EXCEPT !.palettes[event.paletteId].curves = MapDel(@, event.curveId)]

\* DELETE_CURVE
DELETE_CURVE(ctx, event) ==
  LET palette == ctx.palettes[event.paletteId]
  IN [ctx EXCEPT
        !.palettes[event.paletteId].scales =
           [s \in DOMAIN palette.scales |->
              RemoveCurveReferences(palette.curves, palette.scales[s], event.curveId)],
        !.palettes[event.paletteId].curves = MapDel(@, event.curveId)]

\* A faulty CHANGE_SCALE_CURVE that attaches the curve and keeps the stored
\* values of the channel.
CHANGE_SCALE_CURVE_keeps_offsets(ctx, event) ==
  IF event.curveId /= EmptyString
  THEN [ctx EXCEPT !.palettes[event.paletteId].scales[event.scaleId].curves =
                      MapPut(@, event.curveType, event.curveId)]
  ELSE [ctx EXCEPT !.palettes[event.paletteId].scales[event.scaleId].curves =
                      MapDel(@, event.curveType)]

\* CHANGE_SCALE_CURVE
CHANGE_SCALE_CURVE(ctx, event) ==
  LET palette == ctx.palettes[event.paletteId]
      scale == palette.scales[event.scaleId]
      Zero(color, index) == WithChannel(color, event.curveType, Num(0))
      Resolved(color, index) ==
        WithChannel(color, event.curveType,
                    getColor(palette.curves, scale, index)[event.curveType])
  IN IF event.curveId /= EmptyString
     THEN [ctx EXCEPT
             !.palettes[event.paletteId].scales[event.scaleId].colors =
                [i \in 1..Len(scale.colors) |-> Zero(scale.colors[i], i - 1)],
             !.palettes[event.paletteId].scales[event.scaleId].curves =
                MapPut(@, event.curveType, event.curveId)]
     ELSE [ctx EXCEPT
             !.palettes[event.paletteId].scales[event.scaleId].colors =
                [i \in 1..Len(scale.colors) |-> Resolved(scale.colors[i], i - 1)],
             !.palettes[event.paletteId].scales[event.scaleId].curves =
                MapDel(@, event.curveType)]

\* A faulty CHANGE_SCALE_NAMING_SCHEME that sets the id and leaves the colors.
CHANGE_SCALE_NAMING_SCHEME_no_resize(ctx, event) ==
  [ctx EXCEPT !.palettes[event.paletteId].scales[event.scaleId].namingSchemeId =
     event.namingSchemeId]

\* CHANGE_SCALE_NAMING_SCHEME
CHANGE_SCALE_NAMING_SCHEME(ctx, event) ==
  LET palette == ctx.palettes[event.paletteId]
      scale == palette.scales[event.scaleId]
  IN IF event.namingSchemeId = NULL
     THEN [ctx EXCEPT !.palettes[event.paletteId].scales[event.scaleId].namingSchemeId = NULL]
     ELSE LET names == palette.namingSchemes[event.namingSchemeId].names
              lastColor == At(scale.colors, Len(scale.colors) - 1, EmptyObject)
          IN [ctx EXCEPT
                !.palettes[event.paletteId].scales[event.scaleId].namingSchemeId =
                   event.namingSchemeId,
                !.palettes[event.paletteId].scales[event.scaleId].colors =
                   [i \in 1..Len(names) |->
                      IF i - 1 >= Len(scale.colors) THEN lastColor ELSE scale.colors[i]]]

\* CHANGE_CURVE_VALUE
CHANGE_CURVE_VALUE(ctx, event) ==
  [ctx EXCEPT !.palettes[event.paletteId].curves[event.curveId].values[event.index + 1] =
     event.value]

\* CHANGE_CURVE_VALUES
CHANGE_CURVE_VALUES(ctx, event) ==
  [ctx EXCEPT !.palettes[event.paletteId].curves[event.curveId].values = event.values]

\* CHANGE_SCALE_COLORS
CHANGE_SCALE_COLORS(ctx, event) ==
  [ctx EXCEPT !.palettes[event.paletteId].scales[event.scaleId].colors = event.colors]

\* lerp(start, end, t) of utils: start + (end - start) * t
lerp(start, end, t) == Add(start, Mul(Sub(end, start), t))

\* index / (length - 1), as far as an easing function of the model tells its
\* arguments apart: 0, 1, a number strictly between them, or NaN for 0 / 0.
TimeOf(index, length) ==
  IF length = 1 THEN "nan"
  ELSE IF index = 0 THEN "zero"
  ELSE IF index = length - 1 THEN "one"
  ELSE "mid"

\* Math.round(x * 10) / 10: every number of the model is a whole number,
\* which rounding to one decimal leaves alone; NaN stays NaN.
Round1(x) == IF IsNum(x) THEN x ELSE NaN

\* APPLY_EASING_FUNCTION; `== null` holds of undefined.
APPLY_EASING_FUNCTION(ctx, event) ==
  LET values == ctx.palettes[event.paletteId].curves[event.curveId].values
      startingPoint == At(values, 0, Undefined)
      endingPoint == At(values, Len(values) - 1, Undefined)
  IN IF startingPoint = Undefined \/ endingPoint = Undefined
     THEN ctx
     ELSE [ctx EXCEPT !.palettes[event.paletteId].curves[event.curveId].values =
             [i \in 1..Len(values) |->
                Round1(lerp(startingPoint, endingPoint,
                            event.easingFunction[TimeOf(i - 1, Len(values))]))]]

\* UPDATE_NAMING_SCHEME
UPDATE_NAMING_SCHEME(ctx, event) ==
  [ctx EXCEPT !.palettes[event.paletteId].namingSchemes =
     MapPut(@, event.namingScheme.id, event.namingScheme)]

(***************************************************************************)
(* The machine.  An event without a target runs its action and stays in    *)
(* the current state.  An event with target `debouncing` leaves the        *)
(* current state (running idle's exit action when that state is idle, and  *)
(* cancelling the pending delayed transition when it is debouncing), runs  *)
(* its action and enters debouncing, which schedules the delayed           *)
(* transition to idle.  timer holds the pending delayed transitions, each  *)
(* as the ticks left before it fires.                                     *)
(***************************************************************************)
Init ==
  /\ context = InitialContext
  /\ state = "idle"
  /\ timer = <<>>
  /\ nextId = 1
  /\ undos = 0
  /\ burst = <<>>

\* Faulty exit actions that take the checkpoint on every debounced command.
ExitActions_every_command(st, ctx) == idle_exit(ctx)

\* The exit actions a transition to `debouncing` runs on the context.
ExitActions(st, ctx) == IF st = "idle" THEN idle_exit(ctx) ELSE ctx

\* A faulty exit that leaves the delayed transitions of the state pending.
CancelOnExit_keeps_pending(st, tm) == tm

\* The pending delayed transitions after the state st is left.
CancelOnExit(st, tm) == IF st = "debouncing" THEN <<>> ELSE tm

\* target: 'debouncing', with newctx the context after exit and transition actions.
\* The history variable burst observes the run of debounced commands in
\* progress: it holds the context in which idle was left, from the first
\* command of the run until an event that is not debounced is received.
ToDebouncing(newctx) ==
  /\ context' = newctx
  /\ state' = "debouncing"
  /\ timer' = Append(CancelOnExit(state, timer), TicksPerWindow)
  /\ burst' = IF state = "idle" THEN <<context>> ELSE burst

\* No target.
Stay(newctx) ==
  /\ context' = newctx
  /\ burst' = <<>>
  /\ UNCHANGED <<state, timer>>

\* uniqueId() can still be called n times.
IdsLeft(n) == nextId + n - 1 <= MaxIds

PaletteIds == DOMAIN context.palettes
ScaleIds(p) == DOMAIN context.palettes[p].scales
CurveIds(p) == DOMAIN context.palettes[p].curves
NamingSchemeIds(p) == DOMAIN context.palettes[p].namingSchemes
ColorsOf(p, s) == context.palettes[p].scales[s].colors

(***************************************************************************)
(* Payloads the events are sent with.                                      *)
(***************************************************************************)
Names == {<<"renamed">>}
BackgroundColors == {"#000000"}
ColorValues == {[ch \in {"lightness"} |-> Num(5)]}
CurveValues == {Num(0)}
NewColor == Color(0, 100, 5)
CurveTypes == {"lightness", "hue"}

SendUNDO ==
  /\ undos < MaxUndos
  /\ Stay(UNDO(context))
  /\ undos' = undos + 1
  /\ UNCHANGED nextId

SendREDO == Stay(REDO(context)) /\ UNCHANGED <<nextId, undos>>

SendCREATE_PALETTE ==
  /\ IdsLeft(1 + Len(ExampleScales))
  /\ Stay(CREATE_PALETTE(context, nextId))
  /\ nextId' = nextId + 1 + Len(ExampleScales)
  /\ UNCHANGED undos

SendDUPLICATE_PALETTE ==
  \E p \in PaletteIds :
    /\ IdsLeft(1)
    /\ Stay(DUPLICATE_PALETTE(context, [paletteId |-> p], nextId))
    /\ nextId' = nextId + 1
    /\ UNCHANGED undos

SendDELETE_PALETTE ==
  \E p \in PaletteIds :
    /\ ToDebouncing(DELETE_PALETTE(ExitActions(state, context), [paletteId |-> p]))
    /\ UNCHANGED <<nextId, undos>>

SendCHANGE_PALETTE_NAME ==
  \E p \in PaletteIds, n \in Names :
    /\ ToDebouncing(CHANGE_PALETTE_NAME(ExitActions(state, context),
                                        [paletteId |-> p, name |-> n]))
    /\ UNCHANGED <<nextId, undos>>

SendCHANGE_PALETTE_BACKGROUND_COLOR ==
  \E p \in PaletteIds, c \in BackgroundColors :
    /\ ToDebouncing(CHANGE_PALETTE_BACKGROUND_COLOR(ExitActions(state, context),
                      [paletteId |-> p, backgroundColor |-> c]))
    /\ UNCHANGED <<nextId, undos>>

\* The scales an import carries: one scale under a fresh id, without curves or
\* with one curve of the palette on the curve's own channel.
ImportedScales(p, id) ==
  { [k \in {Id(id)} |->
       [id |-> Id(id), name |-> <<"imported">>, colors |-> <<NewColor>>,
        curves |-> cv, namingSchemeId |-> NULL]] :
    cv \in {EmptyMap} \cup
           { [ch \in {context.palettes[p].curves[c].type} |-> c] : c \in CurveIds(p) } }

SendIMPORT_SCALES ==
  \E p \in PaletteIds, replace \in BOOLEAN :
    /\ IdsLeft(1)
    /\ \E scales \in ImportedScales(p, nextId) :
         ToDebouncing(IMPORT_SCALES(ExitActions(state, context),
                        [paletteId |-> p, scales |-> scales, replace |-> replace]))
    /\ nextId' = nextId + 1
    /\ UNCHANGED undos

SendCREATE_SCALE ==
  \E p \in PaletteIds, randomIndex \in 0..(Len(cssColorNames) - 1) :
    /\ IdsLeft(1)
    /\ ToDebouncing(CREATE_SCALE(ExitActions(state, context), [paletteId |-> p],
                                 nextId, randomIndex))
    /\ nextId' = nextId + 1
    /\ UNCHANGED undos

SendDELETE_SCALE ==
  \E p \in PaletteIds : \E s \in ScaleIds(p) :
    /\ ToDebouncing(DELETE_SCALE(ExitActions(state, context),
                                 [paletteId |-> p, scaleId |-> s]))
    /\ UNCHANGED <<nextId, undos>>

SendDUPLICATE_SCALE ==
  \E p \in PaletteIds : \E s \in ScaleIds(p) :
    /\ IdsLeft(1)
    /\ ToDebouncing(DUPLICATE_SCALE(ExitActions(state, context),
                                    [paletteId |-> p, scaleId |-> s], nextId))
    /\ nextId' = nextId + 1
    /\ UNCHANGED undos

SendCHANGE_SCALE_NAME ==
  \E p \in PaletteIds : \E s \in ScaleIds(p), n \in Names :
    /\ ToDebouncing(CHANGE_SCALE_NAME(ExitActions(state, context),
                      [paletteId |-> p, scaleId |-> s, name |-> n]))
    /\ UNCHANGED <<nextId, undos>>

\* afterIndex: null or the index of a color of the scale.
AfterIndexes(p, s) == {<<>>} \cup {<<i>> : i \in 0..(Len(ColorsOf(p, s)) - 1)}

SendCREATE_COLOR ==
  \E p \in PaletteIds : \E s \in ScaleIds(p) :
    \E afterIndex \in AfterIndexes(p, s), randomIndex \in 0..(Len(cssColorNames) - 1) :
      /\ Len(ColorsOf(p, s)) < MaxColors
      /\ ToDebouncing(CREATE_COLOR(ExitActions(state, context),
                        [paletteId |-> p, scaleId |-> s, afterIndex |-> afterIndex],
                        randomIndex))
      /\ UNCHANGED <<nextId, undos>>

SendPOP_COLOR ==
  \E p \in PaletteIds : \E s \in ScaleIds(p) :
    /\ ToDebouncing(POP_COLOR(ExitActions(state, context),
                              [paletteId |-> p, scaleId |-> s]))
    /\ UNCHANGED <<nextId, undos>>

SendDELETE_COLOR ==
  \E p \in PaletteIds : \E s \in ScaleIds(p) :
    \E index \in 0..(Len(ColorsOf(p, s)) - 1) :
      /\ ToDebouncing(DELETE_COLOR(ExitActions(state, context),
                        [paletteId |-> p, scaleId |-> s, index |-> index]))
      /\ UNCHANGED <<nextId, undos>>

SendCHANGE_COLOR_VALUE ==
  \E p \in PaletteIds : \E s \in ScaleIds(p) :
    \E index \in 0..(Len(ColorsOf(p, s)) - 1), value \in ColorValues :
      /\ ToDebouncing(CHANGE_COLOR_VALUE(ExitActions(state, context),
                        [paletteId |-> p, scaleId |-> s, index |-> index, value |-> value]))
      /\ UNCHANGED <<nextId, undos>>

SendCREATE_CURVE_FROM_SCALE ==
  \E p \in PaletteIds : \E s \in ScaleIds(p), curveType \in CurveTypes :
    /\ IdsLeft(1)
    /\ ToDebouncing(CREATE_CURVE_FROM_SCALE(ExitActions(state, context),
                      [paletteId |-> p, scaleId |-> s, curveType |-> curveType], nextId))
    /\ nextId' = nextId + 1
    /\ UNCHANGED undos

SendCREATE_NAMING_SCHEME_FROM_SCALE ==
  \E p \in PaletteIds : \E s \in ScaleIds(p) :
    /\ IdsLeft(1)
    /\ ToDebouncing(CREATE_NAMING_SCHEME_FROM_SCALE(ExitActions(state, context),
                      [paletteId |-> p, scaleId |-> s], nextId))
    /\ nextId' = nextId + 1
    /\ UNCHANGED undos

SendCHANGE_CURVE_NAME ==
  \E p \in PaletteIds : \E c \in CurveIds(p), n \in Names :
    /\ ToDebouncing(CHANGE_CURVE_NAME(ExitActions(state, context),
                      [paletteId |-> p, curveId |-> c, name |-> n]))
    /\ UNCHANGED <<nextId, undos>>

SendDELETE_CURVE ==
  \E p \in PaletteIds : \E c \in CurveIds(p) :
    /\ ToDebouncing(DELETE_CURVE(ExitActions(state, context),
                                 [paletteId |-> p, curveId |-> c]))
    /\ UNCHANGED <<nextId, undos>>

\* curveId: a curve of the palette, or the empty string to detach.
SendCHANGE_SCALE_CURVE ==
  \E p \in PaletteIds : \E s \in ScaleIds(p), curveType \in CurveTypes :
    \E c \in CurveIds(p) \cup {EmptyString} :
      /\ ToDebouncing(CHANGE_SCALE_CURVE(ExitActions(state, context),
                        [paletteId |-> p, scaleId |-> s, curveType |-> curveType,
                         curveId |-> c]))
      /\ UNCHANGED <<nextId, undos>>

SendCHANGE_SCALE_NAMING_SCHEME ==
  \E p \in PaletteIds : \E s \in ScaleIds(p) :
    \E n \in NamingSchemeIds(p) \cup {NULL} :
      /\ ToDebouncing(CHANGE_SCALE_NAMING_SCHEME(ExitActions(state, context),
                        [paletteId |-> p, scaleId |-> s, namingSchemeId |-> n]))
      /\ UNCHANGED <<nextId, undos>>

SendCHANGE_CURVE_VALUE ==
  \E p \in PaletteIds : \E c \in CurveIds(p) :
    \E index \in 0..(Len(context.palettes[p].curves[c].values) - 1), value \in CurveValues :
      /\ ToDebouncing(CHANGE_CURVE_VALUE(ExitActions(state, context),
                        [paletteId |-> p, curveId |-> c, index |-> index, value |-> value]))
      /\ UNCHANGED <<nextId, undos>>

\* values: as many values as the curve has, each the same.
SendCHANGE_CURVE_VALUES ==
  \E p \in PaletteIds : \E c \in CurveIds(p), value \in CurveValues :
    /\ ToDebouncing(CHANGE_CURVE_VALUES(ExitActions(state, context),
                      [paletteId |-> p, curveId |-> c,
                       values |-> [i \in 1..Len(context.palettes[p].curves[c].values) |-> value]]))
    /\ UNCHANGED <<nextId, undos>>

\* colors: one to MaxColors copies of a color.
SendCHANGE_SCALE_COLORS ==
  \E p \in PaletteIds : \E s \in ScaleIds(p), n \in 1..MaxColors :
    /\ ToDebouncing(CHANGE_SCALE_COLORS(ExitActions(state, context),
                      [paletteId |-> p, scaleId |-> s, colors |-> [i \in 1..n |-> NewColor]]))
    /\ UNCHANGED <<nextId, undos>>

\* easingFunction: an easing function by its values at 0, strictly between
\* 0 and 1, at 1 and at NaN.  The first jumps at 1 and gives NaN at NaN, as
\* the linear easing x => x does; the second jumps after 0 and gives a
\* number at NaN.
EasingFunctions ==
  { [zero |-> Num(0), mid |-> Num(0), one |-> Num(1), nan |-> NaN],
    [zero |-> Num(0), mid |-> Num(1), one |-> Num(1), nan |-> Num(0)] }

SendAPPLY_EASING_FUNCTION ==
  \E p \in PaletteIds : \E c \in CurveIds(p), f \in EasingFunctions :
    /\ ToDebouncing(APPLY_EASING_FUNCTION(ExitActions(state, context),
                      [paletteId |-> p, curveId |-> c, easingFunction |-> f]))
    /\ UNCHANGED <<nextId, undos>>

\* namingScheme: a naming scheme of the palette with one to MaxColors names.
SendUPDATE_NAMING_SCHEME ==
  \E p \in PaletteIds : \E n \in NamingSchemeIds(p), k \in 1..MaxColors :
    /\ ToDebouncing(UPDATE_NAMING_SCHEME(ExitActions(state, context),
                      [paletteId |-> p,
                       namingScheme |-> [context.palettes[p].namingSchemes[n]
                                           EXCEPT !.names = [i \in 1..k |-> ToString(i - 1)]]]))
    /\ UNCHANGED <<nextId, undos>>

\* The clock: a tick passes while a delayed transition is pending.
Tick ==
  /\ timer /= <<>>
  /\ \E i \in 1..Len(timer) : timer[i] > 0
  /\ timer' = [i \in 1..Len(timer) |-> IF timer[i] > 0 THEN timer[i] - 1 ELSE 0]
  /\ UNCHANGED <<context, state, nextId, undos, burst>>

\* A faulty delayed transition that takes a checkpoint on the way to idle.
After_checkpoints ==
  /\ state = "debouncing"
  /\ \E i \in 1..Len(timer) : timer[i] = 0
  /\ state' = "idle"
  /\ timer' = CancelOnExit(state, timer)
  /\ context' = idle_exit(context)
  /\ UNCHANGED <<nextId, undos, burst>>

\* states.debouncing.after 200: the delayed transition fires; debouncing is
\* left (cancelling what is pending) and idle entered.
After ==
  /\ state = "debouncing"
  /\ \E i \in 1..Len(timer) : timer[i] = 0
  /\ state' = "idle"
  /\ timer' = CancelOnExit(state, timer)
  /\ UNCHANGED <<context, nextId, undos, burst>>

CreateFirstPalette == PaletteIds = {} /\ SendCREATE_PALETTE

\* Every event.
Next ==
  \/ SendUNDO
  \/ SendREDO
  \/ SendCREATE_PALETTE
  \/ SendDUPLICATE_PALETTE
  \/ SendDELETE_PALETTE
  \/ SendCHANGE_PALETTE_NAME
  \/ SendCHANGE_PALETTE_BACKGROUND_COLOR
  \/ SendIMPORT_SCALES
  \/ SendCREATE_SCALE
  \/ SendDELETE_SCALE
  \/ SendDUPLICATE_SCALE
  \/ SendCHANGE_SCALE_NAME
  \/ SendCREATE_COLOR
  \/ SendPOP_COLOR
  \/ SendDELETE_COLOR
  \/ SendCHANGE_COLOR_VALUE
  \/ SendCREATE_CURVE_FROM_SCALE
  \/ SendCREATE_NAMING_SCHEME_FROM_SCALE
  \/ SendCHANGE_CURVE_NAME
  \/ SendDELETE_CURVE
  \/ SendCHANGE_SCALE_CURVE
  \/ SendCHANGE_SCALE_NAMING_SCHEME
  \/ SendCHANGE_CURVE_VALUE
  \/ SendCHANGE_CURVE_VALUES
  \/ SendCHANGE_SCALE_COLORS
  \/ SendAPPLY_EASING_FUNCTION
  \/ SendUPDATE_NAMING_SCHEME
  \/ Tick
  \/ After

Spec == Init /\ [][Next]_vars

(***************************************************************************)
(* The state space of Spec is the product of what the history, the colors  *)
(* of a scale and the entities of a palette can each be.  Each part is      *)
(* explored on its own, by the events that act on it, from the machine's   *)
(* initial context.                                                        *)
(***************************************************************************)
\* The history: one palette, edited by the two events that change only a
\* field of the palette, with UNDO, REDO and the clock.
NextHist ==
  \/ CreateFirstPalette
  \/ SendCHANGE_PALETTE_NAME
  \/ SendCHANGE_PALETTE_BACKGROUND_COLOR
  \/ SendUNDO
  \/ SendREDO
  \/ Tick
  \/ After

SpecHist == Init /\ [][NextHist]_vars

\* The history with the passing of time: the clock does not stop while a
\* delayed transition is pending, and the interpreter takes a delayed
\* transition that has come due and has not been cancelled.
SpecHistFair == SpecHist /\ WF_vars(Tick) /\ WF_vars(After)

\* The events whose transition has target: 'debouncing'.
DebouncedCommand ==
  \/ SendDELETE_PALETTE
  \/ SendCHANGE_PALETTE_NAME
  \/ SendCHANGE_PALETTE_BACKGROUND_COLOR
  \/ SendIMPORT_SCALES
  \/ SendCREATE_SCALE
  \/ SendDELETE_SCALE
  \/ SendDUPLICATE_SCALE
  \/ SendCHANGE_SCALE_NAME
  \/ SendCREATE_COLOR
  \/ SendPOP_COLOR
  \/ SendDELETE_COLOR
  \/ SendCHANGE_COLOR_VALUE
  \/ SendCREATE_CURVE_FROM_SCALE
  \/ SendCREATE_NAMING_SCHEME_FROM_SCALE
  \/ SendCHANGE_CURVE_NAME
  \/ SendDELETE_CURVE
  \/ SendCHANGE_SCALE_CURVE
  \/ SendCHANGE_SCALE_NAMING_SCHEME
  \/ SendCHANGE_CURVE_VALUE
  \/ SendCHANGE_CURVE_VALUES
  \/ SendCHANGE_SCALE_COLORS
  \/ SendAPPLY_EASING_FUNCTION
  \/ SendUPDATE_NAMING_SCHEME

\* The commands a scale refuses: one palette whose scale loses colors and
\* gets a naming scheme, with UNDO and the clock.
PastLeft == Len(context.past) < MaxPast
AttachNamingScheme == PastLeft /\ SendCREATE_NAMING_SCHEME_FROM_SCALE
TryDELETE_COLOR == PastLeft /\ SendDELETE_COLOR
TryPOP_COLOR == PastLeft /\ SendPOP_COLOR

NextPolicy ==
  \/ CreateFirstPalette
  \/ AttachNamingScheme
  \/ TryDELETE_COLOR
  \/ TryPOP_COLOR
  \/ SendUNDO
  \/ Tick
  \/ After

SpecPolicy == Init /\ [][NextPolicy]_vars

\* The number of colors of one scale and its naming schemes: the events
\* that add and remove colors and the naming-scheme events.
NextNaming ==
  \/ CreateFirstPalette
  \/ SendCHANGE_SCALE_NAME
  \/ SendCREATE_COLOR
  \/ SendPOP_COLOR
  \/ SendDELETE_COLOR
  \/ SendCHANGE_SCALE_COLORS
  \/ SendCREATE_NAMING_SCHEME_FROM_SCALE
  \/ SendCHANGE_SCALE_NAMING_SCHEME
  \/ SendUPDATE_NAMING_SCHEME

SpecNaming == Init /\ [][NextNaming]_vars

\* The curves of one scale: the curve events, with the events that add,
\* remove and change a color.
NextCurve ==
  \/ CreateFirstPalette
  \/ SendCREATE_COLOR
  \/ SendDELETE_COLOR
  \/ SendCHANGE_COLOR_VALUE
  \/ SendCREATE_CURVE_FROM_SCALE
  \/ SendDELETE_CURVE
  \/ SendCHANGE_SCALE_CURVE
  \/ SendCHANGE_CURVE_VALUE
  \/ SendCHANGE_CURVE_VALUES
  \/ SendAPPLY_EASING_FUNCTION

SpecCurve == Init /\ [][NextCurve]_vars

\* The entities of the palettes: the events that create, copy, import
\* and delete palettes, scales and curves.
NextScales ==
  \/ SendCREATE_PALETTE
  \/ SendDUPLICATE_PALETTE
  \/ SendDELETE_PALETTE
  \/ SendIMPORT_SCALES
  \/ SendCREATE_SCALE
  \/ SendDELETE_SCALE
  \/ SendDUPLICATE_SCALE
  \/ SendCREATE_CURVE_FROM_SCALE
  \/ SendDELETE_CURVE
  \/ SendCHANGE_SCALE_CURVE

SpecScales == Init /\ [][NextScales]_vars

(***************************************************************************)
(* The history (SpecHist).                                                 *)
(***************************************************************************)
\* C1: wherever past is non-empty, also when earlier UNDOs have left future
\* non-empty, an UNDO immediately followed by a REDO leaves the current
\* document equal to the document before the UNDO.
C1_RedoAfterUndoIdentity ==
  Len(context.past) > 0 => REDO(UNDO(context)).palettes = context.palettes

\* C2: in idle, where every earlier command has settled, one more debounced
\* command followed (once it has settled) by one UNDO gives back the
\* document that was current before that command.
C2_UndoInverse ==
  state = "idle" =>
    LET exited == ExitActions(state, context)
        edited ==
          {CHANGE_PALETTE_NAME(exited, [paletteId |-> p, name |-> n]) :
             p \in PaletteIds, n \in Names}
          \cup
          {CHANGE_PALETTE_BACKGROUND_COLOR(exited, [paletteId |-> p, backgroundColor |-> b]) :
             p \in PaletteIds, b \in BackgroundColors}
    IN \A c \in edited : UNDO(c).palettes = context.palettes

\* Two commands have settled, the second of which changed the document, and
\* the history holds the two documents before them.
C2_Witness ==
  /\ state = "idle"
  /\ Len(context.past) >= 2
  /\ context.past[Len(context.past)] /= context.palettes
  /\ context.past[Len(context.past)] /= context.past[1]

\* C3: past never holds more than 25 entries, and a checkpoint pushed onto a
\* past of 25 entries evicts the oldest: the other 24 keep their order and
\* the new snapshot is last.
C3_HistoryCap ==
  [][ /\ Len(context'.past) <= size
      /\ (state = "idle" /\ state' = "debouncing" /\ Len(context.past) = size)
           => context'.past = Append(Tail(context.past), context.palettes) ]_vars

\* past is full and its oldest entry is no longer the first document that
\* was checkpointed (the palette as it was created).
C3_Witness ==
  /\ Len(context.past) = size
  /\ \E p \in DOMAIN context.past[1] : context.past[1][p].name \in Names

\* C4: if an UNDO has left future non-empty, in idle or in debouncing, then
\* after the next debounced command future is empty.
C4_FutureClearedByEdit ==
  [][ ( /\ Len(context.future) > 0
        /\ SendCHANGE_PALETTE_NAME \/ SendCHANGE_PALETTE_BACKGROUND_COLOR )
      => Len(context'.future) = 0 ]_vars

(***************************************************************************)
(* The colors and naming schemes of a scale (SpecNaming).                  *)
(***************************************************************************)
\* C5: on a scale with exactly one color and no naming scheme, POP_COLOR
\* and DELETE_COLOR (at any index) leave the scale's colors unchanged.
C5_ColorCountFloor ==
  [][ \A p \in PaletteIds : \A s \in ScaleIds(p) :
        ( /\ Len(ColorsOf(p, s)) = 1
          /\ context.palettes[p].scales[s].namingSchemeId = NULL
          /\ SendPOP_COLOR \/ SendDELETE_COLOR )
        => context'.palettes[p].scales[s].colors = ColorsOf(p, s) ]_vars

\* C6: every scale whose namingSchemeId is set has as many colors as that
\* naming scheme of its palette has names.
C6_NamingSchemeCount ==
  \A p \in PaletteIds : \A s \in ScaleIds(p) :
    LET n == context.palettes[p].scales[s].namingSchemeId
    IN n /= NULL =>
         /\ n \in NamingSchemeIds(p)
         /\ Len(ColorsOf(p, s)) = Len(context.palettes[p].namingSchemes[n].names)

(***************************************************************************)
(* The curves of a scale (SpecCurve).                                      *)
(***************************************************************************)
\* C7: for every channel on which a scale references a curve, the curve has
\* as many values as the scale has colors.
C7_CurveLength ==
  \A p \in PaletteIds : \A s \in ScaleIds(p) :
    \A ch \in DOMAIN context.palettes[p].scales[s].curves :
      LET c == context.palettes[p].scales[s].curves[ch]
      IN c \in CurveIds(p) =>
           Len(context.palettes[p].curves[c].values) = Len(ColorsOf(p, s))

\* C9: CREATE_CURVE_FROM_SCALE for a channel of a scale, also when another
\* curve already drives the channel, leaves getColor at every index of the
\* scale as it was; the new curve's values are the previous effective values
\* of the channel and every stored value of the channel becomes 0.
C9_CreateCurvePreservesColor ==
  \A p \in PaletteIds : \A s \in ScaleIds(p) : \A ch \in Channels :
    LET before == context.palettes[p]
        after == CREATE_CURVE_FROM_SCALE(ExitActions(state, context),
                   [paletteId |-> p, scaleId |-> s, curveType |-> ch], nextId).palettes[p]
        n == Len(before.scales[s].colors)
    IN /\ Len(after.scales[s].colors) = n
       /\ after.scales[s].curves[ch] = Id(nextId)
       /\ after.curves[Id(nextId)].values =
            [i \in 1..n |-> getColor(before.curves, before.scales[s], i - 1)[ch]]
       /\ \A index \in 0..(n - 1) :
            /\ getColor(after.curves, after.scales[s], index) =
                 getColor(before.curves, before.scales[s], index)
            /\ after.scales[s].colors[index + 1][ch] = Num(0)

\* The curve created last drives a channel of a scale whose palette has an
\* older curve of the same type with other values, and the channel's stored
\* values are 0.
C9_Witness ==
  \E p \in PaletteIds : \E s \in ScaleIds(p) :
    \E ch \in DOMAIN context.palettes[p].scales[s].curves :
      \E old \in CurveIds(p) :
        LET new == context.palettes[p].scales[s].curves[ch]
            colors == ColorsOf(p, s)
        IN /\ new = Id(nextId - 1)
           /\ new \in CurveIds(p)
           /\ old /= new
           /\ context.palettes[p].curves[new].type = ch
           /\ context.palettes[p].curves[old].type = ch
           /\ context.palettes[p].curves[old].values /= context.palettes[p].curves[new].values
           /\ Len(colors) > 0
           /\ \A i \in 1..Len(colors) : colors[i][ch] = Num(0)

\* C10, as stated: attaching an existing curve of the palette to a channel
\* of a scale (CHANGE_SCALE_CURVE with a non-empty curveId) leaves getColor
\* at every index of the scale as it was.
C10_AttachPreservesColor ==
  \A p \in PaletteIds : \A s \in ScaleIds(p) : \A ch \in Channels : \A c \in CurveIds(p) :
    LET before == context.palettes[p]
        after == CHANGE_SCALE_CURVE(ExitActions(state, context),
                   [paletteId |-> p, scaleId |-> s, curveType |-> ch, curveId |-> c]).palettes[p]
    IN \A index \in 0..(Len(before.scales[s].colors) - 1) :
         getColor(after.curves, after.scales[s], index) =
           getColor(before.curves, before.scales[s], index)

\* C10, as the program has it: after CHANGE_SCALE_CURVE with a non-empty
\* curveId the scale references the curve on the channel, every stored value
\* of the channel is 0, so that getColor on the channel is the curve's value
\* at the index, and getColor on the other channels is as it was.
C10_AttachAdoptsCurve ==
  \A p \in PaletteIds : \A s \in ScaleIds(p) : \A ch \in Channels : \A c \in CurveIds(p) :
    LET before == context.palettes[p]
        after == CHANGE_SCALE_CURVE(ExitActions(state, context),
                   [paletteId |-> p, scaleId |-> s, curveType |-> ch, curveId |-> c]).palettes[p]
        n == Len(before.scales[s].colors)
    IN /\ after.scales[s].curves[ch] = c
       /\ after.curves = before.curves
       /\ Len(after.scales[s].colors) = n
       /\ \A index \in 0..(n - 1) :
            /\ after.scales[s].colors[index + 1][ch] = Num(0)
            /\ getColor(after.curves, after.scales[s], index)[ch] =
                 Add(At(before.curves[c].values, index, Undefined), Num(0))
            /\ \A other \in Channels \ {ch} :
                 getColor(after.curves, after.scales[s], index)[other] =
                   getColor(before.curves, before.scales[s], index)[other]

\* A scale references, on a channel, a curve that was not created for that
\* scale's channel: a curve of another type, which only CHANGE_SCALE_CURVE
\* attaches; the channel's stored values are 0.
C10_Witness ==
  \E p \in PaletteIds : \E s \in ScaleIds(p) :
    \E ch \in DOMAIN context.palettes[p].scales[s].curves :
      LET c == context.palettes[p].scales[s].curves[ch]
          colors == ColorsOf(p, s)
      IN /\ c \in CurveIds(p)
         /\ context.palettes[p].curves[c].type /= ch
         /\ Len(colors) > 0
         /\ \A i \in 1..Len(colors) : colors[i][ch] = Num(0)

C11_DetachPreservesColor ==
  \A p \in PaletteIds :
    LET before == context.palettes[p]
        Same(after, s) ==
          \A index \in 0..(Len(before.scales[s].colors) - 1) :
            getColor(after.curves, after.scales[s], index) =
              getColor(before.curves, before.scales[s], index)
        Absolute(after, s, ch) ==
          /\ ch \notin DOMAIN after.scales[s].curves
          /\ Len(after.scales[s].colors) = Len(before.scales[s].colors)
          /\ \A i \in 1..Len(before.scales[s].colors) :
               after.scales[s].colors[i][ch] =
                 Add(At(before.curves[before.scales[s].curves[ch]].values, i - 1, Undefined),
                     before.scales[s].colors[i][ch])
    IN /\ \A s \in ScaleIds(p) : \A ch \in DOMAIN before.scales[s].curves :
            LET after == CHANGE_SCALE_CURVE(ExitActions(state, context),
                           [paletteId |-> p, scaleId |-> s, curveType |-> ch,
                            curveId |-> EmptyString]).palettes[p]
            IN Same(after, s) /\ Absolute(after, s, ch) /\ after.curves = before.curves
       /\ \A c \in CurveIds(p) :
            LET after == DELETE_CURVE(ExitActions(state, context),
                           [paletteId |-> p, curveId |-> c]).palettes[p]
            IN /\ c \notin DOMAIN after.curves
               /\ \A s \in ScaleIds(p) :
                    /\ Same(after, s)
                    /\ \A ch \in DOMAIN before.scales[s].curves :
                         IF before.scales[s].curves[ch] = c
                         THEN Absolute(after, s, ch)
                         ELSE /\ ch \in DOMAIN after.scales[s].curves
                              /\ after.scales[s].curves[ch] = before.scales[s].curves[ch]

\* A scale without a lightness curve stores lightness 20: the 15 of a curve
\* plus the offset 5 the scale had while it referenced the curve.
C11_Witness ==
  \E p \in PaletteIds : \E s \in ScaleIds(p) :
    /\ "lightness" \notin DOMAIN context.palettes[p].scales[s].curves
    /\ Len(ColorsOf(p, s)) > 0
    /\ ColorsOf(p, s)[1].lightness = Num(20)

\* C12: CREATE_PALETTE, DUPLICATE_PALETTE and DELETE_PALETTE each leave the
\* machine's state, the pending delayed transition, past and future as they
\* were and change palettes only.
C12_PaletteEventsBypassHistory ==
  [][ (SendCREATE_PALETTE \/ SendDUPLICATE_PALETTE \/ SendDELETE_PALETTE)
      => /\ state' = state
         /\ timer' = timer
         /\ context'.past = context.past
         /\ context'.future = context.future ]_vars

(***************************************************************************)
(* The colors of a scale, continued (SpecNaming).                          *)
(***************************************************************************)
\* C13: on a scale that has colors, CREATE_COLOR with afterIndex = i (the
\* last index when afterIndex is null) gives one color more; the color at
\* i + 1 is a copy of the old color at i, its lightness replaced by
\* max(0, lightness - 10) exactly when i is the old last index; the other
\* colors keep their values and their order.
C13_CreateColorInserts ==
  \A p \in PaletteIds : \A s \in ScaleIds(p) :
    \A afterIndex \in AfterIndexes(p, s), randomIndex \in 0..(Len(cssColorNames) - 1) :
      LET old == ColorsOf(p, s)
          i == IF afterIndex = <<>> THEN Len(old) - 1 ELSE afterIndex[1]
          new == CREATE_COLOR(ExitActions(state, context),
                   [paletteId |-> p, scaleId |-> s, afterIndex |-> afterIndex],
                   randomIndex).palettes[p].scales[s].colors
          l == old[i + 1].lightness
          darker == IF IsNum(l) THEN Num(IF l.v - 10 > 0 THEN l.v - 10 ELSE 0) ELSE NaN
      IN Len(old) >= 1 =>
           /\ Len(new) = Len(old) + 1
           /\ \A k \in 1..(i + 1) : new[k] = old[k]
           /\ \A k \in (i + 2)..Len(old) : new[k + 1] = old[k]
           /\ \A ch \in Channels \ {"lightness"} : new[i + 2][ch] = old[i + 1][ch]
           /\ new[i + 2].lightness = (IF i = Len(old) - 1 THEN darker ELSE l)

\* A scale whose second color is its first color of lightness 5 appended
\* with lightness 0, the clamped 5 - 10.
C13_Witness ==
  \E p \in PaletteIds : \E s \in ScaleIds(p) :
    ColorsOf(p, s) = <<Color(0, 0, 5), Color(0, 0, 0)>>

\* C14: on a scale without colors, CREATE_COLOR leaves exactly one color,
\* synthesized from a named CSS color: hue, saturation and lightness are
\* defined numbers.
C14_CreateColorOnEmptyScale ==
  \A p \in PaletteIds : \A s \in ScaleIds(p) :
    \A randomIndex \in 0..(Len(cssColorNames) - 1) :
      LET new == CREATE_COLOR(ExitActions(state, context),
                   [paletteId |-> p, scaleId |-> s, afterIndex |-> <<>>],
                   randomIndex).palettes[p].scales[s].colors
      IN Len(ColorsOf(p, s)) = 0 =>
           /\ Len(new) = 1
           /\ \E k \in 1..Len(cssColorNames) : new[1] = hexToColor(cssColorNames[k].name)
           /\ \A ch \in Channels : IsNum(new[1][ch])

\* C15: CHANGE_SCALE_NAMING_SCHEME with a scheme of N names on a scale of
\* M >= 1 colors gives exactly N colors: the first min(M, N) are the scale's
\* previous colors in order and, when N > M, every added one equals the
\* previous last color; with null it clears namingSchemeId and leaves the
\* colors as they were.
C15_NamingSchemeResize ==
  \A p \in PaletteIds : \A s \in ScaleIds(p) :
    LET old == ColorsOf(p, s)
        M == Len(old)
        Attach(n) == CHANGE_SCALE_NAMING_SCHEME(ExitActions(state, context),
                       [paletteId |-> p, scaleId |-> s, namingSchemeId |-> n]).palettes[p].scales[s]
    IN M >= 1 =>
         /\ Attach(NULL).namingSchemeId = NULL
         /\ Attach(NULL).colors = old
         /\ \A n \in NamingSchemeIds(p) :
              LET N == Len(context.palettes[p].namingSchemes[n].names)
                  new == Attach(n).colors
              IN /\ Attach(n).namingSchemeId = n
                 /\ Len(new) = N
                 /\ \A k \in 1..N : new[k] = (IF k <= M THEN old[k] ELSE old[M])

\* A scale with a naming scheme whose second color is a copy of its first,
\* the seeded color of lightness 15: the padding of a one-color scale to a
\* scheme of two names.
C15_Witness ==
  \E p \in PaletteIds : \E s \in ScaleIds(p) :
    /\ context.palettes[p].scales[s].namingSchemeId /= NULL
    /\ ColorsOf(p, s) = <<Color(0, 0, 15), Color(0, 0, 15)>>

(***************************************************************************)
(* The entities of the palettes, continued (SpecScales).                   *)
(***************************************************************************)
\* C16: no two entities of the current document (palettes, and the scales,
\* curves and naming schemes of all palettes) have the same id.
C16_UniqueIds ==
  LET Entities(p) == ScaleIds(p) \cup CurveIds(p) \cup NamingSchemeIds(p)
  IN /\ \A p \in PaletteIds :
          /\ Entities(p) \cap PaletteIds = {}
          /\ ScaleIds(p) \cap CurveIds(p) = {}
          /\ ScaleIds(p) \cap NamingSchemeIds(p) = {}
          /\ CurveIds(p) \cap NamingSchemeIds(p) = {}
     /\ \A p, q \in PaletteIds : p /= q => Entities(p) \cap Entities(q) = {}

(***************************************************************************)
(* The curves of a scale, continued (SpecCurve).                           *)
(***************************************************************************)
\* C17: on a curve of no value or of one value, APPLY_EASING_FUNCTION leaves
\* the curve's values as they were.
C17_EasingNeedsTwoValues ==
  \A p \in PaletteIds : \A c \in CurveIds(p), f \in EasingFunctions :
    Len(context.palettes[p].curves[c].values) <= 1 =>
      APPLY_EASING_FUNCTION(ExitActions(state, context),
        [paletteId |-> p, curveId |-> c, easingFunction |-> f]).palettes[p].curves[c].values
      = context.palettes[p].curves[c].values

(***************************************************************************)
(* The history, continued (SpecHist).                                      *)
(***************************************************************************)
\* C18, as stated: on the transition from debouncing to idle the current
\* document is pushed onto past, past is cut to its last 25 entries and
\* future is cleared; entering debouncing from idle changes neither past
\* nor future.
C18_CheckpointOnSettle ==
  [][ /\ (state = "debouncing" /\ state' = "idle") =>
           LET full == Append(context.past, context.palettes)
           IN /\ context'.past = (IF Len(full) > size THEN Tail(full) ELSE full)
              /\ context'.future = <<>>
      /\ (state = "idle" /\ state' = "debouncing") =>
           /\ context'.past = context.past
           /\ context'.future = context.future ]_vars

\* C18, as the program has it: the checkpoint is taken on leaving idle.
\* When a debounced command is received in idle, the document as it is
\* before the command is pushed onto past, past is cut to its last 25
\* entries and future is cleared; the transition from debouncing to idle
\* leaves palettes, past and future as they are.
C18_CheckpointOnLeavingIdle ==
  [][ /\ (state = "idle" /\ state' = "debouncing") =>
           LET full == Append(context.past, context.palettes)
           IN /\ context'.past = (IF Len(full) > size THEN Tail(full) ELSE full)
              /\ context'.future = <<>>
      /\ (state = "debouncing" /\ state' = "idle") => context' = context ]_vars

\* One command has been received in idle and has settled: the machine is
\* back in idle, and past holds one entry, the document before the command.
C18_Witness ==
  /\ state = "idle"
  /\ Len(context.past) = 1
  /\ context.past[1] /= context.palettes
  /\ context.future = <<>>

\* C19: a run of one or more debounced commands that starts in idle with
\* document D and has no timer expiry inside it adds exactly one entry, D,
\* to past (the oldest entry is dropped only when past was at its cap), and
\* an UNDO received after the run, before or after the window has elapsed,
\* makes the current document D.
C19_BurstCollapse ==
  burst /= <<>> =>
    LET start == burst[1]
        full == Append(start.past, start.palettes)
    IN /\ context.past = (IF Len(full) > size THEN Tail(full) ELSE full)
       /\ Len(start.past) < size => Len(context.past) = Len(start.past) + 1
       /\ UNDO(context).palettes = start.palettes

\* A run of two commands (a rename and a change of background) has been
\* received and its window has elapsed.
C19_Witness ==
  /\ state = "idle"
  /\ burst /= <<>>
  /\ \E p \in PaletteIds :
       /\ p \in DOMAIN burst[1].palettes
       /\ context.palettes[p].name \in Names
       /\ burst[1].palettes[p].name \notin Names
       /\ context.palettes[p].backgroundColor \in BackgroundColors
       /\ burst[1].palettes[p].backgroundColor \notin BackgroundColors

(***************************************************************************)
(* The debounce (SpecHistFair).                                            *)
(***************************************************************************)
\* C20: a debounced command, received in idle or in debouncing, leaves the
\* machine in debouncing with one full window pending; at most one delayed
\* transition is pending, and one is pending exactly when the state is
\* debouncing; idle is entered from debouncing only when the pending window
\* has run down to nothing, no debounced command having restarted it; and
\* unless debounced commands keep arriving for ever, the machine is in idle
\* again and again (and, no command leaving idle, stays there).
C20_DebounceMachine ==
  /\ [](/\ Len(timer) <= 1
        /\ (timer /= <<>>) <=> (state = "debouncing")
        /\ \A i \in 1..Len(timer) : timer[i] \in 0..TicksPerWindow)
  /\ [][ /\ DebouncedCommand =>
              (state' = "debouncing" /\ timer' = <<TicksPerWindow>>)
         /\ (state = "debouncing" /\ state' = "idle") =>
              (timer = <<0>> /\ timer' = <<>>)
         /\ (state = "idle" /\ state' = "debouncing") => DebouncedCommand
         /\ (state = "debouncing" /\ timer' /= timer /\ timer' /= <<>>) =>
              \/ timer' = <<timer[1] - 1>>
              \/ DebouncedCommand ]_vars
  /\ ([]<>(state = "idle") \/ []<><<DebouncedCommand>>_vars)

\* A second command was received in debouncing, in the run that the first
\* started, and a full window has passed since: the delayed transition is due.
C20_Witness ==
  /\ state = "debouncing"
  /\ timer = <<0>>
  /\ Len(context.past) = 1
  /\ \E p \in PaletteIds :
       /\ context.palettes[p].name \in Names
       /\ context.palettes[p].backgroundColor \in BackgroundColors
       /\ context.past[1][p].name \notin Names
       /\ context.past[1][p].backgroundColor \notin BackgroundColors

(***************************************************************************)
(* The history: several steps back and forth (SpecHist).                   *)
(***************************************************************************)
\* C21: in every reachable state with future empty and at least k entries
\* in past, for k = 1 and k = 2, k UNDOs in a row followed by k REDOs in a
\* row leave the current document, past and future exactly as they were
\* before the first UNDO.
C21_UndoRedoRoundTrip ==
  context.future = <<>> =>
    /\ Len(context.past) >= 1 => REDO(UNDO(context)) = context
    /\ Len(context.past) >= 2 => REDO(REDO(UNDO(UNDO(context)))) = context

(***************************************************************************)
(* Removing the last color (SpecNaming).                                   *)
(***************************************************************************)
\* C22: for a scale with no naming scheme and at least two colors,
\* POP_COLOR removes exactly the last color: the colors that remain are the
\* colors before it without the last one, unchanged and in order.
C22_PopRemovesLast ==
  \A p \in PaletteIds : \A s \in ScaleIds(p) :
    LET scale == context.palettes[p].scales[s]
        after == POP_COLOR(ExitActions(state, context), [paletteId |-> p, scaleId |-> s])
    IN (scale.namingSchemeId = NULL /\ Len(scale.colors) >= 2) =>
         after.palettes[p].scales[s].colors = SubSeq(scale.colors, 1, Len(scale.colors) - 1)

(***************************************************************************)
(* Commands that are refused (SpecPolicy).                                 *)
(***************************************************************************)
\* C23: a DELETE_COLOR or POP_COLOR received in idle for a scale with a
\* naming scheme attached, or a DELETE_COLOR for a scale of one color,
\* leaves the document as it is and still moves the machine to debouncing,
\* pushes the unchanged document onto past (cut to its last 25 entries) and
\* clears future; an UNDO right after it leaves the document unchanged and
\* takes one entry off past.
C23_RefusedCommandCheckpoints ==
  [][ LET attached == \A p \in PaletteIds : \A s \in ScaleIds(p) :
                        context.palettes[p].scales[s].namingSchemeId /= NULL
          single == \A p \in PaletteIds : \A s \in ScaleIds(p) :
                      Len(context.palettes[p].scales[s].colors) = 1
          full == Append(context.past, context.palettes)
      IN (/\ state = "idle"
          /\ \/ (attached \/ single) /\ SendDELETE_COLOR
             \/ attached /\ SendPOP_COLOR)
         => /\ context'.palettes = context.palettes
            /\ state' = "debouncing"
            /\ context'.past = (IF Len(full) > size THEN Tail(full) ELSE full)
            /\ context'.future = <<>>
            /\ UNDO(context').palettes = context.palettes
            /\ Len(UNDO(context').past) = Len(context'.past) - 1 ]_vars

\* A command was refused by a scale with a naming scheme after an UNDO in
\* idle: the unchanged document is the last entry of past and the future
\* that the UNDO had left is gone.
C23_Witness ==
  /\ state = "debouncing"
  /\ burst /= <<>>
  /\ burst[1].palettes = context.palettes
  /\ burst[1].future /= <<>>
  /\ context.future = <<>>
  /\ context.past = Append(burst[1].past, context.palettes)
  /\ \E p \in PaletteIds : \E s \in ScaleIds(p) :
       context.palettes[p].scales[s].namingSchemeId /= NULL

(***************************************************************************)
(* The size of the history (SpecHist).                                     *)
(***************************************************************************)
\* C24: in every reachable state past and future together hold at most 25
\* entries; UNDO and REDO, once or twice in a row, leave the number of
\* entries of past and future together as it is; and that number changes
\* only on a step that leaves idle.
C24_CombinedHistoryBound ==
  /\ [](LET total == Len(context.past) + Len(context.future)
        IN /\ total <= size
           /\ \A after \in {UNDO(context), REDO(context),
                            UNDO(UNDO(context)), REDO(REDO(context)),
                            REDO(UNDO(context)), UNDO(REDO(context))} :
                Len(after.past) + Len(after.future) = total)
  /\ [][ /\ (SendUNDO \/ SendREDO) =>
              Len(context'.past) + Len(context'.future)
                = Len(context.past) + Len(context.future)
         /\ (Len(context'.past) + Len(context'.future)
               /= Len(context.past) + Len(context.future)) =>
              (state = "idle" /\ state' = "debouncing") ]_vars

\* past and future together hold 25 entries, one of them in future: an
\* UNDO was received with past at its cap.
C24_Witness ==
  /\ Len(context.past) = size - 1
  /\ Len(context.future) = 1

====
